---- MODULE Spec2Model ----
(***************************************************************************)
(* Tic-Tac-Toe against a minimax computer opponent (src/src/App.jsx).      *)
(*                                                                         *)
(* The pure part (evaluate, availableMoves, minimax, pickBestMove) is      *)
(* modelled as operators; the body of minimax is the recursive function    *)
(* activation.  minimax and pickBestMove write into the array              *)
(* they are given and restore it, so both return the array as it is left   *)
(* next to the value they return.  Math.random() is a nondeterministic     *)
(* choice: pickBestMove is the set of results it can produce.              *)
(*                                                                         *)
(* The App component is a state machine over its React state (board,       *)
(* humanPlays, turn, difficulty) and the two timeouts its effects keep     *)
(* pending.  An action is one event handler or timer callback together     *)
(* with the render and the effect cleanup/re-run that follow it.           *)
(***************************************************************************)
EXTENDS Integers, Sequences, FiniteSets, TLC

\* JavaScript values with no TLA+ counterpart.
null == "null"
undefined == -1
Infinity == 1000

Cells == 0..8
Marks == {"X", "O"}
Difficulties == {"easy", "medium", "hard"}
Cell == Marks \cup {null}

WINS == << <<0,1,2>>, <<3,4,5>>, <<6,7,8>>,
           <<0,3,6>>, <<1,4,7>>, <<2,5,8>>,
           <<0,4,8>>, <<2,4,6>> >>

EmptyBoard == [i \in Cells |-> null]

(***************************************************************************)
(* evaluate(board): the loop over WINS, one test per line [a,b,c] in the   *)
(* order of the array: the mark of the first line whose three cells hold   *)
(* the same non-null mark; else "draw" on a full board; else null.         *)
(***************************************************************************)
\* evaluate with the middle row missing from the lines it scans.
evaluateMissingRow(board) ==
  IF board[0] # null /\ board[0] = board[1] /\ board[0] = board[2] THEN board[0]
  ELSE IF board[6] # null /\ board[6] = board[7] /\ board[6] = board[8] THEN board[6]
  ELSE IF board[0] # null /\ board[0] = board[3] /\ board[0] = board[6] THEN board[0]
  ELSE IF board[1] # null /\ board[1] = board[4] /\ board[1] = board[7] THEN board[1]
  ELSE IF board[2] # null /\ board[2] = board[5] /\ board[2] = board[8] THEN board[2]
  ELSE IF board[0] # null /\ board[0] = board[4] /\ board[0] = board[8] THEN board[0]
  ELSE IF board[2] # null /\ board[2] = board[4] /\ board[2] = board[6] THEN board[2]
  ELSE IF \A i \in Cells : board[i] # null THEN "draw"
  ELSE null

\* evaluate without the full-board test: null where it returns 'draw'.
evaluateNoDraw(board) ==
  IF board[0] # null /\ board[0] = board[1] /\ board[0] = board[2] THEN board[0]
  ELSE IF board[3] # null /\ board[3] = board[4] /\ board[3] = board[5] THEN board[3]
  ELSE IF board[6] # null /\ board[6] = board[7] /\ board[6] = board[8] THEN board[6]
  ELSE IF board[0] # null /\ board[0] = board[3] /\ board[0] = board[6] THEN board[0]
  ELSE IF board[1] # null /\ board[1] = board[4] /\ board[1] = board[7] THEN board[1]
  ELSE IF board[2] # null /\ board[2] = board[5] /\ board[2] = board[8] THEN board[2]
  ELSE IF board[0] # null /\ board[0] = board[4] /\ board[0] = board[8] THEN board[0]
  ELSE IF board[2] # null /\ board[2] = board[4] /\ board[2] = board[6] THEN board[2]
  ELSE null

evaluate(board) ==
  IF board[0] # null /\ board[0] = board[1] /\ board[0] = board[2] THEN board[0]
  ELSE IF board[3] # null /\ board[3] = board[4] /\ board[3] = board[5] THEN board[3]
  ELSE IF board[6] # null /\ board[6] = board[7] /\ board[6] = board[8] THEN board[6]
  ELSE IF board[0] # null /\ board[0] = board[3] /\ board[0] = board[6] THEN board[0]
  ELSE IF board[1] # null /\ board[1] = board[4] /\ board[1] = board[7] THEN board[1]
  ELSE IF board[2] # null /\ board[2] = board[5] /\ board[2] = board[8] THEN board[2]
  ELSE IF board[0] # null /\ board[0] = board[4] /\ board[0] = board[8] THEN board[0]
  ELSE IF board[2] # null /\ board[2] = board[4] /\ board[2] = board[6] THEN board[2]
  ELSE IF \A i \in Cells : board[i] # null THEN "draw"
  ELSE null

(***************************************************************************)
(* availableMoves(board): the indices of the empty cells, ascending.       *)
(***************************************************************************)
availableMoves(board) ==
  SelectSeq(<<0, 1, 2, 3, 4, 5, 6, 7, 8>>, LAMBDA i : board[i] = null)

Max(a, b) == IF a >= b THEN a ELSE b
Min(a, b) == IF a <= b THEN a ELSE b

(***************************************************************************)
(* minimax(board, ai, human, isMaximizing, depth, depthCap).               *)
(* Result: [ret |-> the score, board |-> the array as the call leaves it]. *)
(* The for-loop runs over availableMoves(board), that is over the cells    *)
(* 0..8 in ascending order, skipping those not empty when the loop starts. *)
(* iteration[s, i] is the loop body for cell i: s holds best and the array *)
(* before it, the result holds them after it.  The body writes the mark,   *)
(* makes the recursive call on the same array and, in leave[s, i, r],      *)
(* folds the score r.ret into best and writes null back into the array     *)
(* r.board the call left.                                                  *)
(***************************************************************************)
\* The arrays of nine cells, the depths of a call (there are nine cells to
\* fill) and the depth caps.
Boards == [Cells -> Cell]
Depths == 0..9
Caps == 0..Infinity

\* best and the array, inside a loop and as the result of a call.
Frame == [ret : -Infinity..Infinity, board : Boards]

\* minimax scoring a human win as 10 - depth, like a computer win.
signSlip[board \in Boards, ai \in Marks, human \in Marks, isMaximizing \in BOOLEAN, depth \in Depths, depthCap \in Caps] ==
  LET outcome == evaluate(board)
      leave[s \in Frame, i \in Cells, r \in Frame] ==
        [ret   |-> IF isMaximizing THEN Max(s.ret, r.ret) ELSE Min(s.ret, r.ret),
         board |-> [r.board EXCEPT ![i] = null]]
      iteration[s \in Frame, i \in Cells] ==
        IF board[i] # null THEN s
        ELSE leave[s, i, signSlip[[s.board EXCEPT ![i] = IF isMaximizing THEN ai ELSE human],
                            ai, human, ~isMaximizing, depth + 1, depthCap]]
  IN IF outcome = ai THEN [ret |-> 10 - depth, board |-> board]
     ELSE IF outcome = human THEN [ret |-> 10 - depth, board |-> board]
     ELSE IF outcome = "draw" THEN [ret |-> 0, board |-> board]
     ELSE IF depthCap # Infinity /\ depth >= depthCap THEN [ret |-> 0, board |-> board]
     ELSE iteration[iteration[iteration[iteration[iteration[iteration[iteration[
            iteration[iteration[
              [ret |-> IF isMaximizing THEN -Infinity ELSE Infinity, board |-> board],
              0], 1], 2], 3], 4], 5], 6], 7], 8]

minimaxSignSlip(board, ai, human, isMaximizing, depth, depthCap) ==
  signSlip[board, ai, human, isMaximizing, depth, depthCap]

\* minimax scoring a computer win as 10 + depth: the later win scores higher.
slowWins[board \in Boards, ai \in Marks, human \in Marks, isMaximizing \in BOOLEAN, depth \in Depths, depthCap \in Caps] ==
  LET outcome == evaluate(board)
      leave[s \in Frame, i \in Cells, r \in Frame] ==
        [ret   |-> IF isMaximizing THEN Max(s.ret, r.ret) ELSE Min(s.ret, r.ret),
         board |-> [r.board EXCEPT ![i] = null]]
      iteration[s \in Frame, i \in Cells] ==
        IF board[i] # null THEN s
        ELSE leave[s, i, slowWins[[s.board EXCEPT ![i] = IF isMaximizing THEN ai ELSE human],
                            ai, human, ~isMaximizing, depth + 1, depthCap]]
  IN IF outcome = ai THEN [ret |-> 10 + depth, board |-> board]
     ELSE IF outcome = human THEN [ret |-> depth - 10, board |-> board]
     ELSE IF outcome = "draw" THEN [ret |-> 0, board |-> board]
     ELSE IF depthCap # Infinity /\ depth >= depthCap THEN [ret |-> 0, board |-> board]
     ELSE iteration[iteration[iteration[iteration[iteration[iteration[iteration[
            iteration[iteration[
              [ret |-> IF isMaximizing THEN -Infinity ELSE Infinity, board |-> board],
              0], 1], 2], 3], 4], 5], 6], 7], 8]

minimaxSlowWins(board, ai, human, isMaximizing, depth, depthCap) ==
  slowWins[board, ai, human, isMaximizing, depth, depthCap]

\* minimax whose minimizing loop does not write null back into the cell.
noRestore[board \in Boards, ai \in Marks, human \in Marks, isMaximizing \in BOOLEAN, depth \in Depths, depthCap \in Caps] ==
  LET outcome == evaluate(board)
      leave[s \in Frame, i \in Cells, r \in Frame] ==
        [ret   |-> IF isMaximizing THEN Max(s.ret, r.ret) ELSE Min(s.ret, r.ret),
         board |-> IF isMaximizing THEN [r.board EXCEPT ![i] = null] ELSE r.board]
      iteration[s \in Frame, i \in Cells] ==
        IF board[i] # null THEN s
        ELSE leave[s, i, noRestore[[s.board EXCEPT ![i] = IF isMaximizing THEN ai ELSE human],
                             ai, human, ~isMaximizing, depth + 1, depthCap]]
  IN IF outcome = ai THEN [ret |-> 10 - depth, board |-> board]
     ELSE IF outcome = human THEN [ret |-> depth - 10, board |-> board]
     ELSE IF outcome = "draw" THEN [ret |-> 0, board |-> board]
     ELSE IF depthCap # Infinity /\ depth >= depthCap THEN [ret |-> 0, board |-> board]
     ELSE iteration[iteration[iteration[iteration[iteration[iteration[iteration[
            iteration[iteration[
              [ret |-> IF isMaximizing THEN -Infinity ELSE Infinity, board |-> board],
              0], 1], 2], 3], 4], 5], 6], 7], 8]

minimaxNoRestore(board, ai, human, isMaximizing, depth, depthCap) ==
  noRestore[board, ai, human, isMaximizing, depth, depthCap]

\* One activation of minimax: its body for the six arguments of the call.
activation[board \in Boards, ai \in Marks, human \in Marks, isMaximizing \in BOOLEAN, depth \in Depths, depthCap \in Caps] ==
  LET outcome == evaluate(board)
      leave[s \in Frame, i \in Cells, r \in Frame] ==
        [ret   |-> IF isMaximizing THEN Max(s.ret, r.ret) ELSE Min(s.ret, r.ret),
         board |-> [r.board EXCEPT ![i] = null]]
      iteration[s \in Frame, i \in Cells] ==
        IF board[i] # null THEN s
        ELSE leave[s, i, activation[[s.board EXCEPT ![i] = IF isMaximizing THEN ai ELSE human],
                              ai, human, ~isMaximizing, depth + 1, depthCap]]
  IN IF outcome = ai THEN [ret |-> 10 - depth, board |-> board]
     ELSE IF outcome = human THEN [ret |-> depth - 10, board |-> board]
     ELSE IF outcome = "draw" THEN [ret |-> 0, board |-> board]
     ELSE IF depthCap # Infinity /\ depth >= depthCap THEN [ret |-> 0, board |-> board]
     ELSE iteration[iteration[iteration[iteration[iteration[iteration[iteration[
            iteration[iteration[
              [ret |-> IF isMaximizing THEN -Infinity ELSE Infinity, board |-> board],
              0], 1], 2], 3], 4], 5], 6], 7], 8]

minimax(board, ai, human, isMaximizing, depth, depthCap) ==
  activation[board, ai, human, isMaximizing, depth, depthCap]

(***************************************************************************)
(* pickBestMove(board, ai, human, difficulty): the set of results          *)
(* [ret |-> the value returned, board |-> the array as the call leaves it] *)
(* over all outcomes of Math.random().                                     *)
(* searchLoop is the for-loop over empties that keeps bestScore/bestMoves. *)
(***************************************************************************)
RECURSIVE searchLoop(_, _, _, _, _, _, _, _)

\* The loop with >= for >: a score equal to the best replaces bestMoves.
searchLoopLastMax(board, empties, k, bestScore, bestMoves, ai, human, depthCap) ==
  IF k > Len(empties)
    THEN [bestScore |-> bestScore, bestMoves |-> bestMoves, board |-> board]
    ELSE LET i == empties[k]
             r == minimax([board EXCEPT ![i] = ai], ai, human, FALSE, 0, depthCap)
             b == [r.board EXCEPT ![i] = null]
         IN IF r.ret >= bestScore
              THEN searchLoop(b, empties, k + 1, r.ret, <<i>>, ai, human, depthCap)
              ELSE searchLoop(b, empties, k + 1, bestScore, bestMoves,
                              ai, human, depthCap)

searchLoop(board, empties, k, bestScore, bestMoves, ai, human, depthCap) ==
  IF k > Len(empties)
    THEN [bestScore |-> bestScore, bestMoves |-> bestMoves, board |-> board]
    ELSE LET i == empties[k]
             r == minimax([board EXCEPT ![i] = ai], ai, human, FALSE, 0, depthCap)
             b == [r.board EXCEPT ![i] = null]
         IN IF r.ret > bestScore
              THEN searchLoop(b, empties, k + 1, r.ret, <<i>>, ai, human, depthCap)
              ELSE IF r.ret = bestScore
                THEN searchLoop(b, empties, k + 1, bestScore, Append(bestMoves, i),
                                ai, human, depthCap)
                ELSE searchLoop(b, empties, k + 1, bestScore, bestMoves,
                                ai, human, depthCap)

\* The depth cap with medium capped at 2 plies.
depthCapOfTwo(difficulty) == IF difficulty = "medium" THEN 2 ELSE Infinity

depthCapOf(difficulty) == IF difficulty = "medium" THEN 3 ELSE Infinity

\* pickBestMove returning the random index itself, not the cell it selects.
pickBestMoveRawIndex(board, ai, human, difficulty) ==
  LET empties == availableMoves(board) IN
  IF Len(empties) = 0
    THEN {[ret |-> undefined, board |-> board]}
    ELSE LET random == IF difficulty = "easy"
                         THEN {[ret |-> j - 1, board |-> board] :
                                 j \in 1..Len(empties)}
                         ELSE {}
             s == searchLoop(board, empties, 1, -Infinity, << >>,
                             ai, human, depthCapOf(difficulty))
         IN random \cup {[ret |-> j - 1, board |-> s.board] :
                           j \in 1..Len(s.bestMoves)}

\* pickBestMove whose easy branch is never taken.
pickBestMoveNoRandom(board, ai, human, difficulty) ==
  LET empties == availableMoves(board) IN
  IF Len(empties) = 0
    THEN {[ret |-> undefined, board |-> board]}
    ELSE LET s == searchLoop(board, empties, 1, -Infinity, << >>,
                             ai, human, depthCapOf(difficulty))
         IN {[ret |-> s.bestMoves[j], board |-> s.board] :
               j \in 1..Len(s.bestMoves)}

pickBestMove(board, ai, human, difficulty) ==
  LET empties == availableMoves(board) IN
  IF Len(empties) = 0
    THEN {[ret |-> undefined, board |-> board]}
    ELSE LET random == IF difficulty = "easy"
                         THEN {[ret |-> empties[j], board |-> board] :
                                 j \in 1..Len(empties)}
                         ELSE {}
             s == searchLoop(board, empties, 1, -Infinity, << >>,
                             ai, human, depthCapOf(difficulty))
         IN random \cup {[ret |-> s.bestMoves[j], board |-> s.board] :
                           j \in 1..Len(s.bestMoves)}

(***************************************************************************)
(* The App component.                                                      *)
(***************************************************************************)
VARIABLES
  board,       \* useState(Array(9).fill(null))
  humanPlays,  \* useState('X')
  turn,        \* useState('X')
  difficulty,  \* useState('hard')
  aiTimer,     \* the timeout of the AI-move effect and what its closure holds
  autoTimer,   \* the timeout of the auto-move effect and what its closure holds
  callPc,      \* a direct call of a pure function: "idle", "call" or "done"
  callArgs,    \* its arguments; callArgs.board is the array as passed
  callRet      \* the function called (for minimax, with isMaximizing), what it
               \* returned, and the array as it left it

appVars == <<board, humanPlays, turn, difficulty, aiTimer, autoTimer>>
callVars == <<callPc, callArgs, callRet>>
vars == <<board, humanPlays, turn, difficulty, aiTimer, autoTimer,
          callPc, callArgs, callRet>>

aiOf(hp) == IF hp = "X" THEN "O" ELSE "X"
ai == aiOf(humanPlays)
status == evaluate(board)

NoAiTimer ==
  [pending |-> FALSE, board |-> EmptyBoard, ai |-> "X", humanPlays |-> "X",
   difficulty |-> "hard"]
NoAutoTimer == [pending |-> FALSE, ai |-> "X"]

\* The AI-move effect without the status test of its early return.
aiEffectNoStatus(b, hp, t, d) ==
  IF t # aiOf(hp)
    THEN NoAiTimer
    ELSE [pending |-> TRUE, board |-> b, ai |-> aiOf(hp), humanPlays |-> hp,
          difficulty |-> d]

\* The AI-move effect testing the turn against the human's mark.
aiEffectHumanTurn(b, hp, t, d) ==
  IF evaluate(b) # null \/ t # hp
    THEN NoAiTimer
    ELSE [pending |-> TRUE, board |-> b, ai |-> aiOf(hp), humanPlays |-> hp,
          difficulty |-> d]

\* The AI-move effect run on a render with the given state: the timeout it
\* leaves pending (none when it returns early).
aiEffect(b, hp, t, d) ==
  IF evaluate(b) # null \/ t # aiOf(hp)
    THEN NoAiTimer
    ELSE [pending |-> TRUE, board |-> b, ai |-> aiOf(hp), humanPlays |-> hp,
          difficulty |-> d]

\* The auto-move effect run on a render with the given state.
autoEffect(b, hp, t) ==
  IF t = "X" /\ hp = "O" /\ evaluate(b) = null
    THEN [pending |-> TRUE, ai |-> aiOf(hp)]
    ELSE NoAutoTimer

\* The render with difficulty missing from the AI-move effect's dependencies.
RenderNoDifficultyDep(newBoard, aiLeft, autoLeft) ==
  /\ aiTimer' =
       IF \/ newBoard
          \/ humanPlays' # humanPlays
          \/ turn' # turn
          \/ evaluate(board') # status
         THEN aiEffect(board', humanPlays', turn', difficulty')
         ELSE aiLeft
  /\ autoTimer' =
       IF \/ humanPlays' # humanPlays
          \/ turn' # turn
          \/ evaluate(board') # status
         THEN autoEffect(board', humanPlays', turn')
         ELSE autoLeft

\* The render after a state update: an effect whose dependencies changed
\* clears its timeout and runs again; otherwise its timeout stays as the
\* handler left it (aiLeft, autoLeft).  newBoard tells that setBoard stored a
\* new array, which changes the board dependency whatever the array holds.
Render(newBoard, aiLeft, autoLeft) ==
  /\ aiTimer' =
       IF \/ newBoard
          \/ humanPlays' # humanPlays
          \/ turn' # turn
          \/ evaluate(board') # status
          \/ difficulty' # difficulty
         THEN aiEffect(board', humanPlays', turn', difficulty')
         ELSE aiLeft
  /\ autoTimer' =
       IF \/ humanPlays' # humanPlays
          \/ turn' # turn
          \/ evaluate(board') # status
         THEN autoEffect(board', humanPlays', turn')
         ELSE autoLeft

NoArgs == [board |-> EmptyBoard, ai |-> "X", human |-> "O", difficulty |-> "hard"]
NoRet == [fn |-> "none", isMaximizing |-> FALSE, ret |-> undefined,
          board |-> EmptyBoard]

InitApp ==
  /\ board = EmptyBoard
  /\ humanPlays = "X"
  /\ turn = "X"
  /\ difficulty = "hard"
  /\ aiTimer = aiEffect(EmptyBoard, "X", "X", "hard")
  /\ autoTimer = autoEffect(EmptyBoard, "X", "X")

Init ==
  /\ InitApp
  /\ callPc = "idle"
  /\ callArgs = NoArgs
  /\ callRet = NoRet

\* handleCell without the turn test of its early return.
handleCellAnyTurn(i) ==
  /\ ~(status # null \/ board[i] # null)
  /\ board' = [board EXCEPT ![i] = humanPlays]
  /\ turn' = ai
  /\ UNCHANGED <<humanPlays, difficulty>>
  /\ Render(TRUE, aiTimer, autoTimer)

\* handleCell calling setTurn(humanPlays) instead of setTurn(ai).
handleCellKeepsTurn(i) ==
  /\ ~(status # null \/ turn # humanPlays \/ board[i] # null)
  /\ board' = [board EXCEPT ![i] = humanPlays]
  /\ turn' = humanPlays
  /\ UNCHANGED <<humanPlays, difficulty>>
  /\ Render(TRUE, aiTimer, autoTimer)

\* handleCell(i): a click on cell i.
handleCell(i) ==
  /\ ~(status # null \/ turn # humanPlays \/ board[i] # null)
  /\ board' = [board EXCEPT ![i] = humanPlays]
  /\ turn' = ai
  /\ UNCHANGED <<humanPlays, difficulty>>
  /\ Render(TRUE, aiTimer, autoTimer)

\* reset without setTurn('X').
resetKeepsTurn(newHuman) ==
  /\ board' = EmptyBoard
  /\ UNCHANGED turn
  /\ humanPlays' = newHuman
  /\ UNCHANGED difficulty
  /\ Render(TRUE, aiTimer, autoTimer)

\* reset(newHuman): the Reset and New Game buttons and the side selector.
reset(newHuman) ==
  /\ board' = EmptyBoard
  /\ turn' = "X"
  /\ humanPlays' = newHuman
  /\ UNCHANGED difficulty
  /\ Render(TRUE, aiTimer, autoTimer)

\* The difficulty selector's onChange.
setDifficulty(d) ==
  /\ d # difficulty
  /\ difficulty' = d
  /\ UNCHANGED <<board, humanPlays, turn>>
  /\ Render(FALSE, aiTimer, autoTimer)

\* The callback of the AI-move effect's timeout.  pickBestMove gets a copy of
\* the board the closure holds; the updater of setBoard sees the current one.
\* The 50 ms timeout of the auto-move effect is never set later than this
\* 400 ms one (a render that sets this one leaves that one as it was or sets
\* it too), so while that one is pending this one has not expired.
aiTimeout ==
  /\ aiTimer.pending
  /\ ~autoTimer.pending
  /\ \E r \in pickBestMove(aiTimer.board, aiTimer.ai, aiTimer.humanPlays,
                           aiTimer.difficulty) :
       LET move == r.ret IN
       IF move # undefined
         THEN /\ board' = IF board[move] # null
                            THEN board
                            ELSE [board EXCEPT ![move] = aiTimer.ai]
              /\ turn' = aiTimer.humanPlays
              /\ UNCHANGED <<humanPlays, difficulty>>
              /\ Render(board[move] = null, NoAiTimer, autoTimer)
         ELSE /\ UNCHANGED <<board, humanPlays, turn, difficulty>>
              /\ Render(FALSE, NoAiTimer, autoTimer)

\* The callback of the auto-move effect's timeout: setTurn(ai).
autoTimeout ==
  /\ autoTimer.pending
  /\ turn' = autoTimer.ai
  /\ UNCHANGED <<board, humanPlays, difficulty>>
  /\ Render(FALSE, aiTimer, NoAutoTimer)

Next ==
  \/ \E i \in Cells : handleCell(i) /\ UNCHANGED callVars
  \/ \E newHuman \in Marks : reset(newHuman) /\ UNCHANGED callVars
  \/ \E d \in Difficulties : setDifficulty(d) /\ UNCHANGED callVars
  \/ aiTimeout /\ UNCHANGED callVars
  \/ autoTimeout /\ UNCHANGED callVars

Spec == Init /\ [][Next]_vars

(***************************************************************************)
(* The game in which a pending AI-move timeout eventually fires.           *)
(* aiTimerFires is the callback of that timeout with any empty cell as the *)
(* move: a step of aiTimeout that places a mark is such a step, and it is  *)
(* enabled exactly when the timeout is pending on a board with an empty    *)
(* cell, which is decided without running the search.                      *)
(***************************************************************************)
aiTimerFires ==
  /\ aiTimer.pending
  /\ ~autoTimer.pending
  /\ \E move \in Cells :
       /\ board[move] = null
       /\ board' = [board EXCEPT ![move] = aiTimer.ai]
       /\ turn' = aiTimer.humanPlays
       /\ UNCHANGED <<humanPlays, difficulty>>
       /\ Render(TRUE, NoAiTimer, autoTimer)
  /\ UNCHANGED callVars

SpecLive ==
  /\ Init
  /\ [][Next]_vars
  /\ WF_vars(autoTimeout /\ UNCHANGED callVars)
  /\ WF_vars(aiTimerFires)

\* The game when the difficulty selector is left at its initial value, hard.
NextHard ==
  \/ \E i \in Cells : handleCell(i) /\ UNCHANGED callVars
  \/ \E newHuman \in Marks : reset(newHuman) /\ UNCHANGED callVars
  \/ aiTimeout /\ UNCHANGED callVars
  \/ autoTimeout /\ UNCHANGED callVars

SpecHard == Init /\ [][NextHard]_vars

(***************************************************************************)
(* Hard-tier self-play: both sides' moves come from pickBestMove under     *)
(* hard, the side to move being its ai argument.                           *)
(***************************************************************************)
selfPlayMove ==
  /\ status = null
  /\ \E r \in pickBestMove(board, turn, aiOf(turn), "hard") :
       /\ r.ret # undefined
       /\ board' = [board EXCEPT ![r.ret] = turn]
       /\ turn' = aiOf(turn)
  /\ UNCHANGED <<humanPlays, difficulty, aiTimer, autoTimer>>
  /\ UNCHANGED callVars

SpecSelfPlay == Init /\ [][selfPlayMove]_vars

(***************************************************************************)
(* Direct calls of pickBestMove and minimax on boards that need not come   *)
(* from play: every board over {null, X, O} with at most MaxEmpty empty    *)
(* cells, and the example board of the specification.                      *)
(***************************************************************************)
MaxEmpty == 4

ExampleBoard ==
  [i \in Cells |-> IF i \in {0, 1} THEN "X" ELSE IF i \in {3, 4} THEN "O" ELSE null]

NumEmpty(b) == Cardinality({i \in Cells : b[i] = null})

CallBoards ==
  {b \in [Cells -> Cell] : NumEmpty(b) <= MaxEmpty} \cup {ExampleBoard}

InitCall ==
  /\ InitApp
  /\ callPc = "call"
  /\ \E b \in CallBoards, a \in Marks, d \in Difficulties :
       callArgs = [board |-> b, ai |-> a, human |-> aiOf(a), difficulty |-> d]
  /\ callRet = NoRet

callPickBestMove ==
  /\ callPc = "call"
  /\ \E r \in pickBestMove(callArgs.board, callArgs.ai, callArgs.human,
                           callArgs.difficulty) :
       callRet' = [fn |-> "pickBestMove", isMaximizing |-> FALSE, ret |-> r.ret,
                   board |-> r.board]
  /\ callPc' = "done"
  /\ UNCHANGED callArgs
  /\ UNCHANGED appVars

callMinimax ==
  /\ callPc = "call"
  /\ \E m \in BOOLEAN :
       LET r == minimax(callArgs.board, callArgs.ai, callArgs.human, m, 0,
                        depthCapOf(callArgs.difficulty))
       IN callRet' = [fn |-> "minimax", isMaximizing |-> m, ret |-> r.ret,
                      board |-> r.board]
  /\ callPc' = "done"
  /\ UNCHANGED callArgs
  /\ UNCHANGED appVars

NextCall == callPickBestMove \/ callMinimax

SpecCall == InitCall /\ [][NextCall]_vars

(***************************************************************************)
(* The same calls, also on the boards with more empty cells that play can  *)
(* hand to pickBestMove: no line completed, as many O as X or one X more,  *)
(* the computer's mark being the one to move.                              *)
(***************************************************************************)
MaxInPlayEmpty == 6

NumMarks(b, m) == Cardinality({i \in Cells : b[i] = m})

toMove(b) == IF NumMarks(b, "X") = NumMarks(b, "O") THEN "X" ELSE "O"

InPlayBoards ==
  {b \in [Cells -> Cell] :
     /\ NumEmpty(b) > MaxEmpty
     /\ NumEmpty(b) <= MaxInPlayEmpty
     /\ NumMarks(b, "X") - NumMarks(b, "O") \in {0, 1}
     /\ evaluate(b) = null}

InitCallInPlay ==
  /\ InitApp
  /\ callPc = "call"
  /\ \/ \E b \in CallBoards, a \in Marks, d \in Difficulties :
          callArgs = [board |-> b, ai |-> a, human |-> aiOf(a), difficulty |-> d]
     \/ \E b \in InPlayBoards, d \in Difficulties :
          callArgs = [board |-> b, ai |-> toMove(b), human |-> aiOf(toMove(b)),
                      difficulty |-> d]
  /\ callRet = NoRet

SpecCallInPlay == InitCallInPlay /\ [][NextCall]_vars

(***************************************************************************)
(* Direct calls of evaluate on every array of nine cells over              *)
(* {null, X, O}.                                                           *)
(***************************************************************************)
InitEvaluate ==
  /\ InitApp
  /\ callPc = "call"
  /\ \E b \in [Cells -> Cell] :
       callArgs = [board |-> b, ai |-> "X", human |-> "O", difficulty |-> "hard"]
  /\ callRet = NoRet

callEvaluate ==
  /\ callPc = "call"
  /\ callRet' = [fn |-> "evaluate", isMaximizing |-> FALSE,
                 ret |-> evaluate(callArgs.board), board |-> callArgs.board]
  /\ callPc' = "done"
  /\ UNCHANGED callArgs
  /\ UNCHANGED appVars

SpecEvaluate == InitEvaluate /\ [][callEvaluate]_vars

(***************************************************************************)
(* Properties.                                                             *)
(***************************************************************************)
CallDone(fn) == callPc = "done" /\ callRet.fn = fn

\* C1 (SpecHard): with the difficulty left at hard, whichever side the human
\* plays and whatever the human and the tie-break choose, no reachable board
\* evaluates to the human's mark: the human never wins.
HardNeverLoses == status # humanPlays

\* A game against hard that the computer has won.
HardComputerWon == status = ai

\* C2 (SpecSelfPlay): in hard-tier self-play from the empty board no board
\* is ever won by either side, a board that is not terminal always has a next
\* move, and every move fills one more cell: every game reaches a full
\* board, and that board is a draw.
SelfPlayDraws ==
  /\ [](status \in {null, "draw"})
  /\ [](status = null =>
          \E r \in pickBestMove(board, turn, aiOf(turn), "hard") :
            r.ret # undefined /\ board[r.ret] = null)
  /\ [][NumEmpty(board') = NumEmpty(board) - 1]_vars

\* A self-play game that has ended in a draw on a full board.
SelfPlayDrawn == status = "draw" /\ NumEmpty(board) = 0

\* The example call: pickBestMove(ExampleBoard, 'O', 'X', 'hard') has returned.
ExampleCallDone ==
  /\ CallDone("pickBestMove")
  /\ callArgs.board = ExampleBoard
  /\ callArgs.ai = "O"
  /\ callArgs.difficulty = "hard"

PickReturnsAvailable ==
  (CallDone("pickBestMove") /\ NumEmpty(callArgs.board) >= 1) =>
    /\ callRet.ret \in Cells
    /\ callArgs.board[callRet.ret] = null
    /\ \E j \in 1..Len(availableMoves(callArgs.board)) :
         availableMoves(callArgs.board)[j] = callRet.ret

\* pickBestMove under medium has returned from a board in play with both
\* occupied and several empty cells.
MediumPickReturned ==
  /\ CallDone("pickBestMove")
  /\ callArgs.difficulty = "medium"
  /\ evaluate(callArgs.board) = null
  /\ NumEmpty(callArgs.board) >= 3
  /\ callRet.ret > 2

\* C5 (SpecCall): when pickBestMove or minimax returns, on every path, the
\* array it was given holds in every cell what it held at the call.
BoardRestored == callPc = "done" => callRet.board = callArgs.board

\* minimax has returned from a search that wrote into several cells.
MinimaxSearchReturned ==
  /\ CallDone("minimax")
  /\ evaluate(callArgs.board) = null
  /\ NumEmpty(callArgs.board) >= 3

Count(m) == Cardinality({i \in Cells : board[i] = m})
HasLine(m) ==
  \E k \in 1..Len(WINS) :
    board[WINS[k][1]] = m /\ board[WINS[k][2]] = m /\ board[WINS[k][3]] = m
IsReset == \E h \in Marks : reset(h)

\* C6 (Spec): once evaluate(board) is not null, a step changes the board
\* only if it is a reset: neither handleCell nor the computer's timer
\* callback places a mark on a terminal board.
TerminalAbsorbing == [][(status # null /\ board' # board) => IsReset]_vars

\* A game that is over with empty cells left and the turn at the human.
TerminalWithEmptyCells ==
  status # null /\ NumEmpty(board) >= 1 /\ turn = humanPlays

\* C7 (Spec): in every reachable state the number of X cells minus the
\* number of O cells is 0 or 1.
CountDifference == Count("X") - Count("O") \in {0, 1}

\* A full board reached with the computer playing X under easy.
FullBoardComputerX ==
  Count("X") = 5 /\ Count("O") = 4 /\ humanPlays = "O" /\ difficulty = "easy"

\* C8 (Spec): a step other than a reset that changes the board or the turn
\* writes the mark whose turn it was into exactly one empty cell, leaves the
\* other eight cells alone and passes the turn to the other mark.
MoveFrame ==
  [][(~IsReset /\ (board' # board \/ turn' # turn)) =>
       \E i \in Cells :
         /\ board[i] = null
         /\ board' = [board EXCEPT ![i] = turn]
         /\ turn' = aiOf(turn)]_vars

\* The computer has answered a human move and the game goes on.
ComputerAnswered ==
  /\ status = null
  /\ turn = humanPlays
  /\ Count(humanPlays) >= 1
  /\ Count(ai) >= 1

\* C9 (Spec): a step reset(newHuman), from any state, leaves the board
\* all-empty, turn 'X' and humanPlays = newHuman; the state is then
\* human-to-move exactly when newHuman is 'X' and computer-to-move, with the
\* computer's move scheduled on the empty board, exactly when it is 'O'.
ResetResult ==
  [][\A h \in Marks :
       reset(h) =>
         /\ board' = EmptyBoard
         /\ turn' = "X"
         /\ humanPlays' = h
         /\ (turn' = humanPlays') = (h = "X")
         /\ (turn' = aiOf(humanPlays')) = (h = "O")
         /\ aiTimer'.pending = (h = "O")
         /\ aiTimer'.pending => aiTimer'.board = EmptyBoard /\ aiTimer'.ai = "X"]_vars

\* The state right after reset('O') under a difficulty other than the
\* initial one: empty board, computer to move.
FreshGameComputerFirst ==
  /\ board = EmptyBoard
  /\ turn = "X"
  /\ humanPlays = "O"
  /\ aiTimer.pending
  /\ difficulty = "medium"

\* C10 (Spec): X and O never both hold a complete winning line.
NoDoubleWin == ~(HasLine("X") /\ HasLine("O"))

\* One side holds a line while the other holds two marks of a line whose
\* third cell is empty.
WonWithOpenThreat ==
  /\ HasLine(humanPlays)
  /\ \E k \in 1..Len(WINS) :
       \E p \in {<<1, 2, 3>>, <<1, 3, 2>>, <<2, 3, 1>>} :
         /\ board[WINS[k][p[1]]] = ai
         /\ board[WINS[k][p[2]]] = ai
         /\ board[WINS[k][p[3]]] = null

\* C11 (SpecEvaluate): on each of the 3^9 arrays evaluate returns one of
\* null, 'draw', 'X', 'O' and leaves the array alone.  When some line of
\* WINS holds one mark in its three cells, the result is the mark of the
\* line with the least index among those; when no line does, it is 'draw'
\* if every cell is occupied and null otherwise.
EvaluateAgrees ==
  CallDone("evaluate") =>
    LET b == callArgs.board
        matching == {k \in 1..Len(WINS) :
                       /\ b[WINS[k][1]] \in Marks
                       /\ b[WINS[k][2]] = b[WINS[k][1]]
                       /\ b[WINS[k][3]] = b[WINS[k][1]]}
    IN /\ callRet.ret \in {null, "draw", "X", "O"}
       /\ callRet.board = b
       /\ matching # {} =>
            \E k \in matching :
              (\A j \in matching : k <= j) /\ callRet.ret = b[WINS[k][1]]
       /\ matching = {} =>
            callRet.ret = IF \A i \in Cells : b[i] \in Marks THEN "draw" ELSE null

\* evaluate has returned 'O' on an array where O holds the top row and X the
\* bottom row: the line met first decides.
EvaluateFirstLineDecided ==
  /\ CallDone("evaluate")
  /\ \A i \in {0, 1, 2} : callArgs.board[i] = "O"
  /\ \A i \in {6, 7, 8} : callArgs.board[i] = "X"
  /\ callRet.ret = "O"

\* Mark m holds the three cells of some line of array b.
HoldsLine(b, m) ==
  \E k \in 1..Len(WINS) :
    b[WINS[k][1]] = m /\ b[WINS[k][2]] = m /\ b[WINS[k][3]] = m

\* C12 (SpecCall): on an array with no empty cell pickBestMove returns
\* undefined under every difficulty, and when no mark holds a line of that
\* full array evaluate returns 'draw' on it.
NoMoveOnFullBoard ==
  (CallDone("pickBestMove") /\ NumEmpty(callArgs.board) = 0) =>
    /\ callRet.ret = undefined
    /\ (~HoldsLine(callArgs.board, "X") /\ ~HoldsLine(callArgs.board, "O")) =>
         evaluate(callArgs.board) = "draw"

\* pickBestMove under easy has returned undefined on a full array that no
\* mark has won.
FullDrawnBoardNoMove ==
  /\ CallDone("pickBestMove")
  /\ callArgs.difficulty = "easy"
  /\ NumEmpty(callArgs.board) = 0
  /\ ~HoldsLine(callArgs.board, "X")
  /\ ~HoldsLine(callArgs.board, "O")
  /\ callRet.ret = undefined

\* The empty cells of array b.
Empties(b) == {i \in Cells : b[i] = null}

\* The score the search gives cell i of array b for computer mark a under
\* depth cap cap: minimax on b with a at i, minimizing ply, depth 0.
Score(b, a, cap, i) ==
  minimax([b EXCEPT ![i] = a], a, aiOf(a), FALSE, 0, cap).ret

\* The maximum of the scores of the empty cells of b (-Infinity if none).
BestScore(b, a, cap) ==
  LET sc(i) == IF b[i] = null THEN Score(b, a, cap, i) ELSE -Infinity
  IN Max(sc(0), Max(sc(1), Max(sc(2), Max(sc(3), Max(sc(4), Max(sc(5),
       Max(sc(6), Max(sc(7), sc(8)))))))))

\* The tie set: the empty cells whose score is the maximum over the empty
\* cells.
TieSet(b, a, cap) ==
  LET best == BestScore(b, a, cap)
  IN {i \in Empties(b) : Score(b, a, cap, i) = best}

\* The values the call in callArgs can return.
Results ==
  {r.ret : r \in pickBestMove(callArgs.board, callArgs.ai, callArgs.human,
                              callArgs.difficulty)}

\* C13 (SpecCall): under easy, on an array with an empty cell, the values
\* pickBestMove can return are exactly the empty cells: each of them can be
\* returned, the cells of the hard tie set among them, and what a call has
\* returned is one of them.
EasyReturnsAnyEmpty ==
  (callArgs.difficulty = "easy" /\ NumEmpty(callArgs.board) >= 1) =>
    /\ callPc = "call" =>
         /\ Results = Empties(callArgs.board)
         /\ TieSet(callArgs.board, callArgs.ai, Infinity) \subseteq Results
    /\ CallDone("pickBestMove") => callRet.ret \in Empties(callArgs.board)

\* pickBestMove under easy has returned, on an array in play, a cell that
\* is not in the hard tie set.
EasyReturnedOutsideTieSet ==
  /\ CallDone("pickBestMove")
  /\ callArgs.difficulty = "easy"
  /\ evaluate(callArgs.board) = null
  /\ callRet.ret \in Empties(callArgs.board)
  /\ callRet.ret \notin TieSet(callArgs.board, callArgs.ai, Infinity)

\* C14 (SpecCall): under medium and hard the cells pickBestMove can return
\* are exactly the tie set under the difficulty's depth cap: no cell with
\* a lower score is returned and every cell with the maximum score can be.
\* It returns undefined exactly when there is no empty cell.
ReturnsTieSet ==
  (callArgs.difficulty \in {"medium", "hard"} /\ callRet.fn # "minimax") =>
    LET tie == TieSet(callArgs.board, callArgs.ai, depthCapOf(callArgs.difficulty))
    IN /\ callPc = "call" =>
            /\ Results \ {undefined} = tie
            /\ (undefined \in Results) = (NumEmpty(callArgs.board) = 0)
       /\ (CallDone("pickBestMove") /\ NumEmpty(callArgs.board) >= 1) =>
            callRet.ret \in tie

\* pickBestMove under medium has returned a cell of a tie set that holds
\* several of the empty cells but not all, and not the first of them.
MediumReturnedLaterTie ==
  /\ CallDone("pickBestMove")
  /\ callArgs.difficulty = "medium"
  /\ LET tie == TieSet(callArgs.board, callArgs.ai, 3)
     IN /\ tie # Empties(callArgs.board)
        /\ callRet.ret \in tie
        /\ \E i \in tie : i < callRet.ret

\* The empty cells of b where mark m completes a line.
ImmediateWins(b, m) == {i \in Empties(b) : HoldsLine([b EXCEPT ![i] = m], m)}

\* No mark holds a line of the array of the call.
NoLineAtCall == ~HoldsLine(callArgs.board, "X") /\ ~HoldsLine(callArgs.board, "O")

\* C15 (SpecCall): under medium and hard, on an array with no completed
\* line where some empty cell completes a line for the computer,
\* pickBestMove returns a cell that completes a line for the computer.
TakesImmediateWin ==
  (/\ CallDone("pickBestMove")
   /\ callArgs.difficulty \in {"medium", "hard"}
   /\ NoLineAtCall
   /\ ImmediateWins(callArgs.board, callArgs.ai) # {}) =>
    callRet.ret \in ImmediateWins(callArgs.board, callArgs.ai)

\* pickBestMove under medium has returned the winning cell on a board of
\* play with 5 empty cells where the human threatens a line too.
TookWinOverBlock ==
  /\ CallDone("pickBestMove")
  /\ callArgs.difficulty = "medium"
  /\ NoLineAtCall
  /\ NumEmpty(callArgs.board) = 5
  /\ ImmediateWins(callArgs.board, callArgs.human) # {}
  /\ ImmediateWins(callArgs.board, callArgs.ai) # Empties(callArgs.board)
  /\ callRet.ret \in ImmediateWins(callArgs.board, callArgs.ai)
  /\ callRet.ret \notin ImmediateWins(callArgs.board, callArgs.human)

\* C16 (SpecCall): under medium and hard, on an array with no completed
\* line where no empty cell completes a line for the computer and exactly
\* one empty cell c completes a line for the human, pickBestMove returns c.
BlocksSingleThreat ==
  (/\ CallDone("pickBestMove")
   /\ callArgs.difficulty \in {"medium", "hard"}
   /\ NoLineAtCall
   /\ ImmediateWins(callArgs.board, callArgs.ai) = {}
   /\ Cardinality(ImmediateWins(callArgs.board, callArgs.human)) = 1) =>
    ImmediateWins(callArgs.board, callArgs.human) = {callRet.ret}

\* pickBestMove under medium has returned the blocking cell on a board of
\* play with 6 empty cells, where the depth cap cuts the search.
BlockedThreat ==
  /\ CallDone("pickBestMove")
  /\ callArgs.difficulty = "medium"
  /\ NoLineAtCall
  /\ NumEmpty(callArgs.board) = 6
  /\ ImmediateWins(callArgs.board, callArgs.ai) = {}
  /\ ImmediateWins(callArgs.board, callArgs.human) = {callRet.ret}

\* C19 (SpecCall): on an array with at most 4 empty cells the search gives
\* every empty cell the same score under medium's depth cap as under
\* hard's, so the tie sets and the sets of values pickBestMove can return
\* are the same, and what a call under medium has returned is in the hard
\* tie set.
MediumEqualsHardUpTo4 ==
  (callArgs.difficulty = "medium" /\ NumEmpty(callArgs.board) <= 4) =>
    LET b == callArgs.board
        a == callArgs.ai
        hardTie == TieSet(b, a, depthCapOf("hard"))
    IN /\ callPc = "call" =>
            /\ \A i \in Empties(b) :
                 Score(b, a, depthCapOf("medium"), i) = Score(b, a, depthCapOf("hard"), i)
            /\ TieSet(b, a, depthCapOf("medium")) = hardTie
            /\ Results = {r.ret : r \in pickBestMove(b, a, callArgs.human, "hard")}
       /\ (CallDone("pickBestMove") /\ NumEmpty(b) >= 1) => callRet.ret \in hardTie

\* pickBestMove under medium has returned on an array in play with 4 empty
\* cells, where the search goes 3 plies below the candidate and the cells
\* score differently.
MediumSearchedFourEmpty ==
  /\ CallDone("pickBestMove")
  /\ callArgs.difficulty = "medium"
  /\ NumEmpty(callArgs.board) = 4
  /\ evaluate(callArgs.board) = null
  /\ ImmediateWins(callArgs.board, "X") = {}
  /\ ImmediateWins(callArgs.board, "O") = {}
  /\ TieSet(callArgs.board, callArgs.ai, Infinity) # Empties(callArgs.board)
  /\ callRet.ret \in TieSet(callArgs.board, callArgs.ai, Infinity)

\* The step writes the computer's mark into an empty cell.
ComputerMarkWritten == \E i \in Cells : board[i] = null /\ board'[i] = ai

\* C18 (Spec): whenever the AI-move timeout is pending, the board, computer
\* mark, human mark and difficulty its callback holds are the current ones,
\* the game is not over and it is the computer's turn: a timeout scheduled
\* before a reset, side change or difficulty change does not outlive it.
\* Every step that writes a computer mark is taken with that timeout
\* pending, writes the mark into one cell that was empty, leaves the other
\* cells alone and clears the timeout.
ScheduledMoveCurrent ==
  /\ [](aiTimer.pending =>
          /\ aiTimer.board = board
          /\ aiTimer.ai = ai
          /\ aiTimer.humanPlays = humanPlays
          /\ aiTimer.difficulty = difficulty
          /\ status = null
          /\ turn = ai)
  /\ [][ComputerMarkWritten =>
          /\ aiTimer.pending
          /\ \E i \in Cells :
               board[i] = null /\ board' = [board EXCEPT ![i] = aiTimer.ai]
          /\ UNCHANGED <<humanPlays, difficulty>>
          /\ ~aiTimer'.pending]_vars

\* The computer's first mark in a game started after the human took O and
\* the difficulty was changed to easy.
MovedAfterSideAndDifficultyChange ==
  /\ humanPlays = "O"
  /\ difficulty = "easy"
  /\ Count("X") = 1
  /\ Count("O") = 0
  /\ turn = "O"
  /\ ~aiTimer.pending

ComputerToMove == status = null /\ turn = ai
HumanToMove == status = null /\ turn = humanPlays

\* C17 (SpecLive): if a pending AI-move timeout eventually fires, every
\* state in which the game is not over and the turn is the computer's,
\* the fresh or reset game with the human playing O among them, is
\* followed by a state in which it is the human's turn or the game is over.
\* A step other than a reset that leaves computer-to-move places exactly one
\* computer mark in an empty cell.
ComputerEventuallyMoves ==
  /\ ComputerToMove ~> (HumanToMove \/ status # null)
  /\ [][(ComputerToMove /\ ~IsReset /\ (board' # board \/ turn' # turn)) =>
          /\ \E i \in Cells :
               board[i] = null /\ board' = [board EXCEPT ![i] = ai]
          /\ evaluate(board') # null \/ turn' = humanPlays']_vars

\* The computer, playing X, has opened a game and the human is to move.
ComputerOpened ==
  /\ humanPlays = "O"
  /\ HumanToMove
  /\ Count("X") = 1
  /\ Count("O") = 0
====
